---- MODULE Spec2Model ----
(***************************************************************************)
(* Model of src/server.js: the POST /send-bulk handler, postWithRetry,     *)
(* postOnce and toFormBody of the bulk-dispatch relay.                     *)
(*                                                                         *)
(* JavaScript values are tagged records [t |-> type, v |-> value]; text is *)
(* a sequence of one-character strings, so that String.prototype.trim is   *)
(* computed and not assumed.  Every handler invocation (request) q has its *)
(* own copy of the handler's locals; the only process-wide state is the    *)
(* DEFAULT_* configuration read from the environment at start-up.          *)
(***************************************************************************)
EXTENDS Integers, Sequences, FiniteSets, TLC

(* ------------------------------ bounds -------------------------------- *)
\* longest recipients array a request carries
MaxRecipients == 2
\* largest maxRetries a request body carries
MaxRetriesIn == 2

(* ------------------------- JavaScript values --------------------------- *)
Undef == [t |-> "undefined"]
Null == [t |-> "null"]
Str(s) == [t |-> "string", v |-> s]
Num(n) == [t |-> "number", v |-> n]
\* the number n + 1/2: JSON numbers need not be whole
Half(n) == [t |-> "number", v |-> n, half |-> TRUE]
\* whether a number is whole, and twice its value, which always is
Whole(x) == "half" \notin DOMAIN x
Twice(x) == 2 * x.v + (IF Whole(x) THEN 0 ELSE 1)
Bool(b) == [t |-> "boolean", v |-> b]
Arr(a) == [t |-> "array", v |-> a]
\* an object is a function from its own keys to values
Obj(f) == [t |-> "object", v |-> f]
EmptyObj == Obj(<<>>)

\* ToBoolean: what `!x`, `x || y` and `if (x)` test
Truthy(x) ==
  CASE x.t = "undefined" -> FALSE
    [] x.t = "null" -> FALSE
    [] x.t = "string" -> x.v # <<>>
    [] x.t = "number" -> Twice(x) # 0
    [] x.t = "boolean" -> x.v
    [] OTHER -> TRUE

\* a || b
Or(a, b) == IF Truthy(a) THEN a ELSE b

\* o?.k and o.k on an object: an absent key reads as undefined
Field(o, k) == IF o.t = "object" /\ k \in DOMAIN o.v THEN o.v[k] ELSE Undef

\* Number.isFinite(x): a JSON number is always finite, nothing else is a number
IsFinite(x) == x.t = "number"

\* the white space String.prototype.trim strips
IsSpace(c) == c \in {" ", "\t", "\n"}

RECURSIVE TrimStart(_)
TrimStart(s) ==
  IF s # <<>> /\ IsSpace(Head(s)) THEN TrimStart(Tail(s)) ELSE s

RECURSIVE TrimEnd(_)
TrimEnd(s) ==
  IF s # <<>> /\ IsSpace(s[Len(s)]) THEN TrimEnd(SubSeq(s, 1, Len(s) - 1)) ELSE s

\* String.prototype.trim
Trim(s) == TrimEnd(TrimStart(s))

\* decimal digits of a natural number
DigitChar(d) == <<"0", "1", "2", "3", "4", "5", "6", "7", "8", "9">>[d + 1]

RECURSIVE Digits(_)
Digits(n) ==
  IF n < 10 THEN <<DigitChar(n)>> ELSE Digits(n \div 10) \o <<DigitChar(n % 10)>>

\* String(v) for the scalars a form field holds
ToStr(x) ==
  CASE x.t = "string" -> x.v
    [] x.t = "boolean" -> IF x.v THEN <<"t", "r", "u", "e">> ELSE <<"f", "a", "l", "s", "e">>
    [] x.t = "number" -> Digits(x.v)
    [] OTHER -> <<"o", "b", "j">>

(* --------------------- process-wide configuration ---------------------- *)
\* fallbacks of lines 5, 7 and 8 (API_URL, MAX_RETRIES, PAUSE_MS_BETWEEN unset)
DEFAULT_API_URL == <<"D">>
DEFAULT_MAX_RETRIES == 2
DEFAULT_PAUSE_MS == 500

\* values of the AUTH_HEADER environment variable: unset, blank, a padded token
DefaultAuthHeaders == {<<>>, <<" ">>, <<" ", "d">>}

(* ----------------------------- requests -------------------------------- *)
ReqIds == {1, 2}

\* recipients[idx] as a client may send it: named, unnamed, without a phone
Named == Obj([name |-> Str(<<"n">>), phone |-> Str(<<"A">>)])
Unnamed == Obj([phone |-> Str(<<"C">>)])
EmptyPhone == Obj([name |-> Str(<<"m">>), phone |-> Str(<<>>)])

RecipientValues == {Named, Unnamed, EmptyPhone, Null}

RecipientLists == UNION { [1..n -> RecipientValues] : n \in 0..MaxRecipients }

\* body.base: absent, or an object with or without is_web, or one that has
\* receipt fields of its own
BaseValues ==
  { Undef,
    Obj([song_id |-> Str(<<"9">>)]),
    Obj([song_id |-> Str(<<"9">>), receipt_phone |-> Str(<<"Z">>),
         receipt_name |-> Str(<<"z">>)]),
    Obj([song_id |-> Str(<<"9">>), is_web |-> Bool(TRUE)]),
    Obj([song_id |-> Str(<<"9">>), is_web |-> Str(<<"n">>)]) }

\* the Authorization header as Node hands it over: absent, empty, a token
HeaderValues == {Undef, Str(<<>>), Str(<<"h">>)}

\* body.authHeader: absent, blank, a padded token
BodyAuthValues == {Undef, Str(<<" ">>), Str(<<" ", "b", " ">>)}

ApiUrlValues == {Undef, Str(<<" ", "u">>)}
PauseMsValues == {Undef, Num(100)}
\* body.maxRetries: absent, -1, 0, 1/2, 1, ..
MaxRetriesValues ==
  {Undef, Half(0)} \cup { Num(n) : n \in (0 - 1)..MaxRetriesIn }

Request(h, u, a, b, r, p, m) ==
  [authorization |-> h,
   body |-> Obj([apiUrl |-> u, authHeader |-> a, base |-> b, recipients |-> r,
                 pauseMs |-> p, maxRetries |-> m])]

\* requests that vary the credentials and the shape of recipients
AuthRequests ==
  { Request(h, Undef, a, Undef, r, Undef, Undef) :
      h \in HeaderValues, a \in BodyAuthValues,
      r \in {Undef, Str(<<"x">>), Arr(<<>>), Arr(<<Named, Unnamed>>)} }
  \cup { [authorization |-> h, body |-> Undef] : h \in HeaderValues }

\* requests that vary the recipients and the retry budget
DispatchRequests ==
  { Request(Str(<<"h">>), Undef, Undef, Undef, Arr(l), Undef, m) :
      l \in RecipientLists, m \in MaxRetriesValues }

\* requests that vary the target, the shared fields and the pacing
ConfigRequests ==
  { Request(Str(<<"h">>), u, Undef, b, Arr(<<Named, EmptyPhone, Unnamed>>), p, Num(1)) :
      u \in ApiUrlValues, b \in BaseValues, p \in PauseMsValues }

\* base.is_web as a client may send it: the spellings of true and others
IsWebValues ==
  { Str(<<"1">>), Str(<<"t", "r", "u", "e">>), Str(<<"T", "r", "u", "e">>), Num(1),
    Bool(TRUE), Str(<<"0">>), Str(<<"T", "R", "U", "E">>), Str(<<>>), Num(0), Num(2),
    Bool(FALSE), Null }

\* requests that vary base.is_web, for two recipients and one retry
IsWebRequests ==
  { Request(Str(<<"h">>), Undef, Undef, Obj([song_id |-> Str(<<"9">>), is_web |-> w]),
            Arr(<<Named, Unnamed>>), Undef, Num(1)) : w \in IsWebValues }

\* the requests sent to a process started with AUTH_HEADER = dflt: the
\* credentials are varied under every default, the rest with AUTH_HEADER unset
Requests(dflt) ==
  IF dflt = <<>>
    THEN AuthRequests \cup DispatchRequests \cup ConfigRequests \cup IsWebRequests
    ELSE AuthRequests

\* the requests two clients send at the same time: two that are dispatched
\* with different credentials, pacing and retry budget, and two that are refused
ConcRequests ==
  { Request(Str(<<"h">>), Undef, Undef, Obj([song_id |-> Str(<<"9">>)]),
            Arr(<<Named, EmptyPhone, Unnamed>>), Undef, Num(1)),
    Request(Undef, Str(<<" ", "u">>), Str(<<" ", "b", " ">>), Undef,
            Arr(<<Unnamed, Named>>), Num(100), Num(0)),
    Request(Undef, Undef, Str(<<" ">>), Undef, Arr(<<Named>>), Undef, Undef),
    Request(Str(<<"h">>), Undef, Undef, Undef, Arr(<<>>), Undef, Undef) }

NoRequest == [authorization |-> Undef, body |-> Undef]

(* ------------------------------ downstream ----------------------------- *)
\* what one fetch can end in: a response (status, text) or a rejection
FetchOutcomes ==
  { [kind |-> "response", status |-> 200, text |-> "{\"id\":1}"],
    [kind |-> "response", status |-> 204, text |-> ""],
    [kind |-> "response", status |-> 300, text |-> "{\"moved\":1}"],
    [kind |-> "response", status |-> 503, text |-> "Service Unavailable"],
    [kind |-> "reject", error |-> "TypeError: fetch failed"] }

\* the outcomes by name
Answer(n) == CHOOSE o \in FetchOutcomes : o.kind = "response" /\ o.status = n
Rejection == CHOOSE o \in FetchOutcomes : o.kind = "reject"

\* the k-th answer of a downstream that goes through script s again and again
Nth(s, k) == s[((k - 1) % Len(s)) + 1]

\* a downstream that alternates between a 503 and a rejection
Alternations == {<<Answer(503), Rejection>>, <<Rejection, Answer(503)>>}

\* what a scripted downstream answers to the successive calls of one request
Scripts ==
  { <<a, b, Answer(503), Answer(200)>> :
      a \in {Answer(503), Rejection, Answer(200)}, b \in {Rejection, Answer(204)} }

\* the texts JSON.parse accepts
JsonTexts == {"{\"id\":1}", "{\"moved\":1}"}

(* ------------------------------- state --------------------------------- *)
VARIABLES
  DEFAULT_AUTH_HEADER,  \* process.env.AUTH_HEADER || ""
  pc,          \* where each handler invocation stands
  req,         \* the request Express hands to the handler
  res,         \* the response sent, status 0 while none is
  apiUrl, authHeader, base, recipients, pauseMs, maxRetries,  \* handler locals
  results, success, failed, idx,
  formObj, attempt, last, out,     \* postWithRetry's arguments, locals, result
  fetching,    \* the downstream call in flight
  sleeping,    \* the duration of the sleep in progress
  calls,       \* downstream calls issued by the request so far
  callsFor,    \* downstream calls issued for the current recipient
  called,      \* the recipients (by index) a downstream call was issued for
  answered,    \* what the downstream last answered for the current recipient
  pauses,      \* sleeps of line 133 that have elapsed
  inflight,    \* the downstream calls issued and not yet answered
  script,      \* the answers the downstream is set to give, <<>> when free
  backoffs,    \* sleeps of line 59 that have elapsed for the current recipient
  sleptSince,  \* sleeps that have elapsed since the last downstream call
  responses    \* responses sent to the client

config == <<apiUrl, authHeader, base, recipients, pauseMs, maxRetries>>
tally == <<results, success, failed>>
retry == <<formObj, attempt, last, out>>
downstream == <<calls, callsFor, called, answered>>
probe == <<inflight, script>>
paced == <<backoffs, sleptSince>>
vars == <<DEFAULT_AUTH_HEADER, pc, req, res, config, tally, idx, retry,
          fetching, sleeping, downstream, pauses, probe, paced, responses>>

NoResponse == [status |-> 0]
NoCall == [url |-> <<>>]
NoAnswer == [kind |-> "none"]

\* no request has arrived
Idle ==
  /\ pc = [q \in ReqIds |-> "idle"]
  /\ req = [q \in ReqIds |-> NoRequest]
  /\ res = [q \in ReqIds |-> NoResponse]
  /\ apiUrl = [q \in ReqIds |-> Undef]
  /\ authHeader = [q \in ReqIds |-> Undef]
  /\ base = [q \in ReqIds |-> Undef]
  /\ recipients = [q \in ReqIds |-> Undef]
  /\ pauseMs = [q \in ReqIds |-> Num(0)]
  /\ maxRetries = [q \in ReqIds |-> Num(0)]
  /\ results = [q \in ReqIds |-> <<>>]
  /\ success = [q \in ReqIds |-> 0]
  /\ failed = [q \in ReqIds |-> 0]
  /\ idx = [q \in ReqIds |-> 0]
  /\ formObj = [q \in ReqIds |-> <<>>]
  /\ attempt = [q \in ReqIds |-> 0]
  /\ last = [q \in ReqIds |-> Null]
  /\ out = [q \in ReqIds |-> Null]
  /\ fetching = [q \in ReqIds |-> NoCall]
  /\ sleeping = [q \in ReqIds |-> 0]
  /\ calls = [q \in ReqIds |-> 0]
  /\ callsFor = [q \in ReqIds |-> 0]
  /\ called = [q \in ReqIds |-> {}]
  /\ answered = [q \in ReqIds |-> NoAnswer]
  /\ pauses = [q \in ReqIds |-> 0]
  /\ inflight = [q \in ReqIds |-> {}]
  /\ backoffs = [q \in ReqIds |-> 0]
  /\ sleptSince = [q \in ReqIds |-> 0]
  /\ responses = [q \in ReqIds |-> 0]

\* the process starts with some AUTH_HEADER; the downstream answers freely
\* or alternates between its two failures
Init ==
  /\ DEFAULT_AUTH_HEADER \in DefaultAuthHeaders
  /\ \E s \in {<<>>} \cup Alternations : script = [q \in ReqIds |-> s]
  /\ Idle

\* the same with a downstream set to answer each request by a script
InitConc ==
  /\ DEFAULT_AUTH_HEADER \in {<<>>, <<" ", "d">>}
  /\ script \in [ReqIds -> Scripts]
  /\ Idle

(* --------------------------- pure functions ---------------------------- *)
\* a && b
And(a, b) == IF Truthy(a) THEN b ELSE a

\* x.trim() of a string value
TrimOf(x) == Str(Trim(x.v))

\* a record's field, undefined when the record has none
Get(rec, k) == IF k \in DOMAIN rec THEN rec[k] ELSE Undef

\* line 84: (req.body?.apiUrl || DEFAULT_API_URL).trim()
ResolveApiUrl(body) == TrimOf(Or(Field(body, "apiUrl"), Str(DEFAULT_API_URL)))

\* lines 89-92 with body.authHeader tried before the header
ResolveAuthBodyFirst(hdr, body, dflt) ==
  Or(Or(And(Field(body, "authHeader"), TrimOf(Field(body, "authHeader"))),
        And(hdr, TrimOf(hdr))),
     Str(dflt))

\* lines 89-92: header, else body.authHeader, else the process default
ResolveAuth(hdr, body, dflt) ==
  Or(Or(And(hdr, TrimOf(hdr)),
        And(Field(body, "authHeader"), TrimOf(Field(body, "authHeader")))),
     Str(dflt))

\* line 94 testing authHeader === undefined
MissingAuthUndefinedOnly(auth) == auth = Undef

\* line 94: no auth was resolved
MissingAuth(auth) == ~Truthy(auth)

\* lines 100-101: the body's number when it is finite, else the default
ResolveNumber(x, dflt) == IF IsFinite(x) THEN x ELSE Num(dflt)

\* line 103 without the length test
InvalidRecipientsNotArray(r) == ~(r.t = "array")

\* line 103: the recipients list is rejected
InvalidRecipients(r) == ~(r.t = "array") \/ Len(r.v) = 0

\* line 109 comparing the lower-cased spelling only
IsWebTruthyLowerCase == {Str(<<"1">>), Str(<<"t", "r", "u", "e">>), Num(1), Bool(TRUE)}

\* line 109: the values is_web counts as true
IsWebTruthy == {Str(<<"1">>), Str(<<"t", "r", "u", "e">>), Str(<<"T", "r", "u", "e">>),
                Num(1), Bool(TRUE)}

\* lines 108-110: is_web, when present, becomes "1" or "0"
NormalizeBase(b) ==
  IF Field(b, "is_web") # Undef
    THEN Obj([b.v EXCEPT !["is_web"] =
                IF b.v["is_web"] \in IsWebTruthy THEN Str(<<"1">>) ELSE Str(<<"0">>)])
    ELSE b

\* lines 116-118: the recipient, its name and its phone
RecipientAt(rs, i) == Or(rs.v[i + 1], EmptyObj)
NameOf(r) == Or(Field(r, "name"), Str(<<>>))
PhoneOf(r) == Field(r, "phone")

\* lines 126-127: { ...base, receipt_phone: phone } and receipt_name when named
Payload(b, name, phone) ==
  LET p == ("receipt_phone" :> phone) @@ b.v
  IN  IF Truthy(name) THEN ("receipt_name" :> name) @@ p ELSE p

\* lines 16-23: the form body, without the undefined and null fields
toFormBody(obj) ==
  [k \in {k \in DOMAIN obj : obj[k] # Undef /\ obj[k] # Null} |-> ToStr(obj[k])]

\* lines 32-33: the headers of the downstream call
Headers(auth) ==
  LET h == [ContentType |-> "application/x-www-form-urlencoded"]
  IN  IF Truthy(auth) THEN ("Authorization" :> auth.v) @@ h ELSE h

\* lines 41-44: the body parsed as JSON, else kept raw
ParseBody(text) == IF text \in JsonTexts THEN [json |-> text] ELSE [raw |-> text]

\* line 52 without the upper limit
IsSuccessNoUpper(status) == status >= 200

\* line 52: a 2xx status
IsSuccess(status) == status >= 200 /\ status < 300

\* line 49 with retries as the number of attempts: attempt < retries
LoopGoesOnStrict(a, retries) == 2 * a < Twice(retries)

\* line 49: the loop of postWithRetry goes on
LoopGoesOn(a, retries) == 2 * a <= Twice(retries)

\* line 59: another attempt remains, so the loop sleeps
SleepsBeforeRetry(a, retries) == 2 * a < Twice(retries)

\* line 61: { ok: false, ...last }
Failure(l) ==
  IF l = Null THEN [ok |-> FALSE]
  ELSE [ok |-> FALSE, status |-> l.status, body |-> l.body]

\* line 53: { ok: true, attempt, ...res }
Success(a, r) == [ok |-> TRUE, attempt |-> a, status |-> r.status, body |-> r.body]

\* line 57: the outcome a rejected fetch is turned into
Caught(e) == [status |-> Num(0), body |-> [error |-> e]]

\* line 115: the loop over the recipients goes on
MoreRecipients(i, rs) == i < Len(rs.v)

\* line 120 testing only that a phone was given: an empty one passes
HasPhoneDefined(r) == PhoneOf(r) # Undef

\* line 120: the recipient has a phone
HasPhone(r) == Truthy(PhoneOf(r))

\* line 121: the result of a recipient without a phone
MissingPhoneResult(i, name, phone) ==
  [index |-> i + 1, name |-> name, phone |-> phone, ok |-> FALSE,
   status |-> Num(400), body |-> [error |-> "Missing phone"]]

\* line 130 with the 0-based idx reported as the index
ResultOfZeroBased(i, name, phone, o) ==
  [index |-> i, name |-> name, phone |-> phone, ok |-> o.ok,
   status |-> Get(o, "status"), body |-> Get(o, "body")]

\* line 130: the result of a recipient from postWithRetry's outcome
ResultOf(i, name, phone, o) ==
  [index |-> i + 1, name |-> name, phone |-> phone, ok |-> o.ok,
   status |-> Get(o, "status"), body |-> Get(o, "body")]

\* line 136: the body of the 200 response
Summary(rs, ok, ko, list) ==
  [summary |-> [total |-> Len(rs.v), success |-> ok, failed |-> ko], results |-> list]

(* ------------------------------ actions -------------------------------- *)
\* the downstream may end the call in flight in o: any outcome when it is
\* free, the next answer of the script when it has one
Plays(q, o) == IF script[q] = <<>> THEN TRUE ELSE o = Nth(script[q], calls[q])

\* the downstream call the invocation issues now: recipient and attempt
Call(q) == [index |-> idx[q] + 1, attempt |-> attempt[q]]

\* Express hands a POST /send-bulk request to the handler
SendBulk(q) ==
  /\ pc[q] = "idle"
  /\ \E r \in Requests(DEFAULT_AUTH_HEADER) : req' = [req EXCEPT ![q] = r]
  /\ pc' = [pc EXCEPT ![q] = "received"]
  /\ UNCHANGED <<DEFAULT_AUTH_HEADER, res, config, tally, idx, retry, fetching,
                 sleeping, downstream, pauses, probe, paced, responses>>

\* Express hands one of two concurrent requests to the handler
SendConcurrently(q) ==
  /\ pc[q] = "idle"
  /\ \E r \in ConcRequests : req' = [req EXCEPT ![q] = r]
  /\ pc' = [pc EXCEPT ![q] = "received"]
  /\ UNCHANGED <<DEFAULT_AUTH_HEADER, res, config, tally, idx, retry, fetching,
                 sleeping, downstream, pauses, probe, paced, responses>>

\* lines 84-96: no auth resolvable, 400
RejectAuth(q) ==
  LET body == req[q].body
      auth == ResolveAuth(req[q].authorization, body, DEFAULT_AUTH_HEADER)
  IN  /\ pc[q] = "received"
      /\ MissingAuth(auth)
      /\ apiUrl' = [apiUrl EXCEPT ![q] = ResolveApiUrl(body)]
      /\ authHeader' = [authHeader EXCEPT ![q] = auth]
      /\ res' = [res EXCEPT ![q] =
           [status |-> 400,
            body |-> [error |-> "Missing auth (send 'Authorization' header or 'authHeader' in body)"]]]
      /\ pc' = [pc EXCEPT ![q] = "done"]
      /\ responses' = [responses EXCEPT ![q] = @ + 1]
      /\ UNCHANGED <<DEFAULT_AUTH_HEADER, req, base, recipients, pauseMs,
                     maxRetries, tally, idx, retry, fetching, sleeping,
                     downstream, pauses, probe, paced>>

\* lines 84-105: auth resolved, recipients rejected, 400
RejectRecipients(q) ==
  LET body == req[q].body
      auth == ResolveAuth(req[q].authorization, body, DEFAULT_AUTH_HEADER)
      rs == Or(Field(body, "recipients"), Arr(<<>>))
  IN  /\ pc[q] = "received"
      /\ ~MissingAuth(auth)
      /\ InvalidRecipients(rs)
      /\ apiUrl' = [apiUrl EXCEPT ![q] = ResolveApiUrl(body)]
      /\ authHeader' = [authHeader EXCEPT ![q] = auth]
      /\ base' = [base EXCEPT ![q] = Or(Field(body, "base"), EmptyObj)]
      /\ recipients' = [recipients EXCEPT ![q] = rs]
      /\ pauseMs' = [pauseMs EXCEPT ![q] =
           ResolveNumber(Field(body, "pauseMs"), DEFAULT_PAUSE_MS)]
      /\ maxRetries' = [maxRetries EXCEPT ![q] =
           ResolveNumber(Field(body, "maxRetries"), DEFAULT_MAX_RETRIES)]
      /\ res' = [res EXCEPT ![q] =
           [status |-> 400, body |-> [error |-> "recipients must be a non-empty array"]]]
      /\ pc' = [pc EXCEPT ![q] = "done"]
      /\ responses' = [responses EXCEPT ![q] = @ + 1]
      /\ UNCHANGED <<DEFAULT_AUTH_HEADER, req, tally, idx, retry, fetching,
                     sleeping, downstream, pauses, probe, paced>>

\* lines 84-113: the request passes validation and the loop starts
Accept(q) ==
  LET body == req[q].body
      auth == ResolveAuth(req[q].authorization, body, DEFAULT_AUTH_HEADER)
      rs == Or(Field(body, "recipients"), Arr(<<>>))
  IN  /\ pc[q] = "received"
      /\ ~MissingAuth(auth)
      /\ ~InvalidRecipients(rs)
      /\ apiUrl' = [apiUrl EXCEPT ![q] = ResolveApiUrl(body)]
      /\ authHeader' = [authHeader EXCEPT ![q] = auth]
      /\ base' = [base EXCEPT ![q] = NormalizeBase(Or(Field(body, "base"), EmptyObj))]
      /\ recipients' = [recipients EXCEPT ![q] = rs]
      /\ pauseMs' = [pauseMs EXCEPT ![q] =
           ResolveNumber(Field(body, "pauseMs"), DEFAULT_PAUSE_MS)]
      /\ maxRetries' = [maxRetries EXCEPT ![q] =
           ResolveNumber(Field(body, "maxRetries"), DEFAULT_MAX_RETRIES)]
      /\ results' = [results EXCEPT ![q] = <<>>]
      /\ success' = [success EXCEPT ![q] = 0]
      /\ failed' = [failed EXCEPT ![q] = 0]
      /\ idx' = [idx EXCEPT ![q] = 0]
      /\ pc' = [pc EXCEPT ![q] = "loop"]
      /\ UNCHANGED <<DEFAULT_AUTH_HEADER, req, res, retry, fetching, sleeping,
                     downstream, pauses, probe, paced, responses>>

\* line 115 false, line 136: every recipient is processed, 200 with the report
Respond(q) ==
  /\ pc[q] = "loop"
  /\ ~MoreRecipients(idx[q], recipients[q])
  /\ res' = [res EXCEPT ![q] =
       [status |-> 200,
        body |-> Summary(recipients[q], success[q], failed[q], results[q])]]
  /\ pc' = [pc EXCEPT ![q] = "done"]
  /\ responses' = [responses EXCEPT ![q] = @ + 1]
  /\ UNCHANGED <<DEFAULT_AUTH_HEADER, req, config, tally, idx, retry, fetching,
                 sleeping, downstream, pauses, probe, paced>>

\* lines 116-124 without failed++
MissingPhoneUncounted(q) ==
  LET r == RecipientAt(recipients[q], idx[q])
  IN  /\ pc[q] = "loop"
      /\ MoreRecipients(idx[q], recipients[q])
      /\ ~HasPhone(r)
      /\ results' = [results EXCEPT ![q] =
           Append(@, MissingPhoneResult(idx[q], NameOf(r), PhoneOf(r)))]
      /\ idx' = [idx EXCEPT ![q] = @ + 1]
      /\ UNCHANGED <<DEFAULT_AUTH_HEADER, pc, req, res, config, success,
                     failed, retry, fetching, sleeping, downstream, pauses,
                     probe, paced, responses>>

\* lines 116-124 with the sleep of line 133 before the continue
MissingPhoneThenPause(q) ==
  LET r == RecipientAt(recipients[q], idx[q])
  IN  /\ pc[q] = "loop"
      /\ MoreRecipients(idx[q], recipients[q])
      /\ ~HasPhone(r)
      /\ results' = [results EXCEPT ![q] =
           Append(@, MissingPhoneResult(idx[q], NameOf(r), PhoneOf(r)))]
      /\ failed' = [failed EXCEPT ![q] = @ + 1]
      /\ sleeping' = [sleeping EXCEPT ![q] = pauseMs[q].v]
      /\ pc' = [pc EXCEPT ![q] = "pause"]
      /\ UNCHANGED <<DEFAULT_AUTH_HEADER, req, res, config, success, idx,
                     retry, fetching, downstream, pauses, probe, paced,
                     responses>>

\* lines 116-124: a recipient without a phone is reported and skipped
MissingPhone(q) ==
  LET r == RecipientAt(recipients[q], idx[q])
  IN  /\ pc[q] = "loop"
      /\ MoreRecipients(idx[q], recipients[q])
      /\ ~HasPhone(r)
      /\ results' = [results EXCEPT ![q] =
           Append(@, MissingPhoneResult(idx[q], NameOf(r), PhoneOf(r)))]
      /\ failed' = [failed EXCEPT ![q] = @ + 1]
      /\ idx' = [idx EXCEPT ![q] = @ + 1]
      /\ UNCHANGED <<DEFAULT_AUTH_HEADER, pc, req, res, config, success, retry,
                     fetching, sleeping, downstream, pauses, probe, paced,
                     responses>>

\* lines 116-133 with postWithRetry not awaited: the first call is issued,
\* the pending outcome is recorded as a failure and the loop moves on
BeginRecipientNoAwait(q) ==
  LET r == RecipientAt(recipients[q], idx[q])
  IN  /\ pc[q] = "loop"
      /\ MoreRecipients(idx[q], recipients[q])
      /\ HasPhone(r)
      /\ results' = [results EXCEPT ![q] =
           Append(@, ResultOf(idx[q], NameOf(r), PhoneOf(r), [ok |-> FALSE]))]
      /\ failed' = [failed EXCEPT ![q] = @ + 1]
      /\ calls' = [calls EXCEPT ![q] = @ + 1]
      /\ called' = [called EXCEPT ![q] = @ \cup {idx[q] + 1}]
      /\ inflight' = [inflight EXCEPT ![q] = @ \cup {Call(q)}]
      /\ sleeping' = [sleeping EXCEPT ![q] = pauseMs[q].v]
      /\ pc' = [pc EXCEPT ![q] = "pause"]
      /\ UNCHANGED <<DEFAULT_AUTH_HEADER, req, res, config, success, idx,
                     retry, fetching, callsFor, answered, pauses, script,
                     paced, responses>>

\* lines 116-129 with the receipt fields assigned to base itself
BeginRecipientAssign(q) ==
  LET r == RecipientAt(recipients[q], idx[q])
  IN  /\ pc[q] = "loop"
      /\ MoreRecipients(idx[q], recipients[q])
      /\ HasPhone(r)
      /\ base' = [base EXCEPT ![q] = Obj(Payload(base[q], NameOf(r), PhoneOf(r)))]
      /\ formObj' = [formObj EXCEPT ![q] = Payload(base[q], NameOf(r), PhoneOf(r))]
      /\ attempt' = [attempt EXCEPT ![q] = 0]
      /\ last' = [last EXCEPT ![q] = Null]
      /\ pc' = [pc EXCEPT ![q] = "retry"]
      /\ UNCHANGED <<DEFAULT_AUTH_HEADER, req, res, apiUrl, authHeader,
                     recipients, pauseMs, maxRetries, tally, idx, out, fetching,
                     sleeping, downstream, pauses, probe, paced, responses>>

\* lines 116-129 and 48: the payload is built and postWithRetry is entered
BeginRecipient(q) ==
  LET r == RecipientAt(recipients[q], idx[q])
  IN  /\ pc[q] = "loop"
      /\ MoreRecipients(idx[q], recipients[q])
      /\ HasPhone(r)
      /\ formObj' = [formObj EXCEPT ![q] = Payload(base[q], NameOf(r), PhoneOf(r))]
      /\ attempt' = [attempt EXCEPT ![q] = 0]
      /\ last' = [last EXCEPT ![q] = Null]
      /\ pc' = [pc EXCEPT ![q] = "retry"]
      /\ UNCHANGED <<DEFAULT_AUTH_HEADER, req, res, config, tally, idx, out,
                     fetching, sleeping, downstream, pauses, probe, paced,
                     responses>>

\* lines 49-51 and 31-39: another attempt, postOnce issues the fetch
Attempt(q) ==
  /\ pc[q] = "retry"
  /\ LoopGoesOn(attempt[q], maxRetries[q])
  /\ fetching' = [fetching EXCEPT ![q] =
       [url |-> apiUrl[q].v, headers |-> Headers(authHeader[q]),
        body |-> toFormBody(formObj[q])]]
  /\ calls' = [calls EXCEPT ![q] = @ + 1]
  /\ callsFor' = [callsFor EXCEPT ![q] = @ + 1]
  /\ called' = [called EXCEPT ![q] = @ \cup {idx[q] + 1}]
  /\ inflight' = [inflight EXCEPT ![q] = @ \cup {Call(q)}]
  /\ pc' = [pc EXCEPT ![q] = "fetch"]
  /\ sleptSince' = [sleptSince EXCEPT ![q] = 0]
  /\ UNCHANGED <<DEFAULT_AUTH_HEADER, req, res, config, tally, idx, retry,
                 sleeping, answered, pauses, script, backoffs, responses>>

\* lines 49 and 61: no attempt is left, postWithRetry returns the failure
GiveUp(q) ==
  /\ pc[q] = "retry"
  /\ ~LoopGoesOn(attempt[q], maxRetries[q])
  /\ out' = [out EXCEPT ![q] = Failure(last[q])]
  /\ pc' = [pc EXCEPT ![q] = "returned"]
  /\ UNCHANGED <<DEFAULT_AUTH_HEADER, req, res, config, tally, idx, formObj,
                 attempt, last, fetching, sleeping, downstream, pauses, probe,
                 paced, responses>>

\* lines 59-60 after a failed attempt: sleep when one more remains, else go on
AfterFailure(q) ==
  IF SleepsBeforeRetry(attempt[q], maxRetries[q])
    THEN /\ sleeping' = [sleeping EXCEPT ![q] = pauseMs[q].v]
         /\ pc' = [pc EXCEPT ![q] = "backoff"]
         /\ UNCHANGED attempt
    ELSE /\ attempt' = [attempt EXCEPT ![q] = @ + 1]
         /\ pc' = [pc EXCEPT ![q] = "retry"]
         /\ UNCHANGED sleeping

\* lines 41-55 with last assigned only while it is null: the first failure
\* of a recipient is the one kept
FulfilKeepsFirst(q, o) ==
  LET r == [status |-> Num(o.status), body |-> ParseBody(o.text)]
  IN  /\ pc[q] = "fetch"
      /\ o.kind = "response"
      /\ Plays(q, o)
      /\ fetching' = [fetching EXCEPT ![q] = NoCall]
      /\ answered' = [answered EXCEPT ![q] = o]
      /\ inflight' = [inflight EXCEPT ![q] = @ \ {Call(q)}]
      /\ IF IsSuccess(o.status)
           THEN /\ out' = [out EXCEPT ![q] = Success(attempt[q], r)]
                /\ pc' = [pc EXCEPT ![q] = "returned"]
                /\ UNCHANGED <<attempt, last, sleeping>>
           ELSE /\ last' = [last EXCEPT ![q] = IF @ = Null THEN r ELSE @]
                /\ AfterFailure(q)
                /\ UNCHANGED out
      /\ UNCHANGED <<DEFAULT_AUTH_HEADER, req, res, config, tally, idx,
                     formObj, calls, callsFor, called, pauses, script, paced,
                     responses>>

\* lines 41-55: the downstream answers; a 2xx returns, another status is kept
Fulfil(q, o) ==
  LET r == [status |-> Num(o.status), body |-> ParseBody(o.text)]
  IN  /\ pc[q] = "fetch"
      /\ o.kind = "response"
      /\ Plays(q, o)
      /\ fetching' = [fetching EXCEPT ![q] = NoCall]
      /\ answered' = [answered EXCEPT ![q] = o]
      /\ inflight' = [inflight EXCEPT ![q] = @ \ {Call(q)}]
      /\ IF IsSuccess(o.status)
           THEN /\ out' = [out EXCEPT ![q] = Success(attempt[q], r)]
                /\ pc' = [pc EXCEPT ![q] = "returned"]
                /\ UNCHANGED <<attempt, last, sleeping>>
           ELSE /\ last' = [last EXCEPT ![q] = r]
                /\ AfterFailure(q)
                /\ UNCHANGED out
      /\ UNCHANGED <<DEFAULT_AUTH_HEADER, req, res, config, tally, idx,
                     formObj, calls, callsFor, called, pauses, script, paced,
                     responses>>

\* lines 50-58 without the try/catch: the rejection reaches the handler's
\* catch of lines 137-140, which answers 500
RejectPropagates(q, o) ==
  /\ pc[q] = "fetch"
  /\ o.kind = "reject"
  /\ Plays(q, o)
  /\ fetching' = [fetching EXCEPT ![q] = NoCall]
  /\ answered' = [answered EXCEPT ![q] = o]
  /\ inflight' = [inflight EXCEPT ![q] = @ \ {Call(q)}]
  /\ res' = [res EXCEPT ![q] = [status |-> 500, body |-> [error |-> o.error]]]
  /\ pc' = [pc EXCEPT ![q] = "done"]
  /\ responses' = [responses EXCEPT ![q] = @ + 1]
  /\ UNCHANGED <<DEFAULT_AUTH_HEADER, req, config, tally, idx, retry, sleeping,
                 calls, callsFor, called, pauses, script, paced>>

\* lines 56-58: the fetch rejects; the failure is kept with status 0
Reject(q, o) ==
  /\ pc[q] = "fetch"
  /\ o.kind = "reject"
  /\ Plays(q, o)
  /\ fetching' = [fetching EXCEPT ![q] = NoCall]
  /\ answered' = [answered EXCEPT ![q] = o]
  /\ inflight' = [inflight EXCEPT ![q] = @ \ {Call(q)}]
  /\ last' = [last EXCEPT ![q] = Caught(o.error)]
  /\ AfterFailure(q)
  /\ UNCHANGED <<DEFAULT_AUTH_HEADER, req, res, config, tally, idx, formObj,
                 out, calls, callsFor, called, pauses, script, paced,
                 responses>>

\* line 59: the sleep between two attempts elapses, line 49: attempt++
Backoff(q) ==
  /\ pc[q] = "backoff"
  /\ sleeping' = [sleeping EXCEPT ![q] = 0]
  /\ attempt' = [attempt EXCEPT ![q] = @ + 1]
  /\ pc' = [pc EXCEPT ![q] = "retry"]
  /\ backoffs' = [backoffs EXCEPT ![q] = @ + 1]
  /\ sleptSince' = [sleptSince EXCEPT ![q] = @ + 1]
  /\ UNCHANGED <<DEFAULT_AUTH_HEADER, req, res, config, tally, idx, formObj,
                 last, out, fetching, downstream, pauses, probe, responses>>

\* lines 129-140 with a failed outcome thrown: the catch answers 500
RecordAbortsOnFailure(q) ==
  LET r == RecipientAt(recipients[q], idx[q])
  IN  /\ pc[q] = "returned"
      /\ IF out[q].ok
           THEN /\ results' = [results EXCEPT ![q] =
                     Append(@, ResultOf(idx[q], NameOf(r), PhoneOf(r), out[q]))]
                /\ success' = [success EXCEPT ![q] = @ + 1]
                /\ sleeping' = [sleeping EXCEPT ![q] = pauseMs[q].v]
                /\ pc' = [pc EXCEPT ![q] = "pause"]
                /\ UNCHANGED <<res, responses>>
           ELSE /\ res' = [res EXCEPT ![q] =
                     [status |-> 500, body |-> [error |-> "Error: send failed"]]]
                /\ responses' = [responses EXCEPT ![q] = @ + 1]
                /\ pc' = [pc EXCEPT ![q] = "done"]
                /\ UNCHANGED <<results, success, sleeping>>
      /\ formObj' = [formObj EXCEPT ![q] = <<>>]
      /\ attempt' = [attempt EXCEPT ![q] = 0]
      /\ last' = [last EXCEPT ![q] = Null]
      /\ out' = [out EXCEPT ![q] = Null]
      /\ callsFor' = [callsFor EXCEPT ![q] = 0]
      /\ answered' = [answered EXCEPT ![q] = NoAnswer]
      /\ backoffs' = [backoffs EXCEPT ![q] = 0]
      /\ UNCHANGED <<DEFAULT_AUTH_HEADER, req, config, failed, idx, fetching,
                     calls, called, pauses, probe, sleptSince>>

\* lines 129-133 with results, success and failed declared at module scope:
\* every invocation pushes to and counts in the same accumulator
RecordShared(q) ==
  LET r == RecipientAt(recipients[q], idx[q])
  IN  /\ pc[q] = "returned"
      /\ results' = [p \in ReqIds |->
           Append(results[p], ResultOf(idx[q], NameOf(r), PhoneOf(r), out[q]))]
      /\ IF out[q].ok
           THEN success' = [p \in ReqIds |-> success[p] + 1] /\ UNCHANGED failed
           ELSE failed' = [p \in ReqIds |-> failed[p] + 1] /\ UNCHANGED success
      /\ formObj' = [formObj EXCEPT ![q] = <<>>]
      /\ attempt' = [attempt EXCEPT ![q] = 0]
      /\ last' = [last EXCEPT ![q] = Null]
      /\ out' = [out EXCEPT ![q] = Null]
      /\ callsFor' = [callsFor EXCEPT ![q] = 0]
      /\ answered' = [answered EXCEPT ![q] = NoAnswer]
      /\ sleeping' = [sleeping EXCEPT ![q] = pauseMs[q].v]
      /\ pc' = [pc EXCEPT ![q] = "pause"]
      /\ backoffs' = [backoffs EXCEPT ![q] = 0]
      /\ UNCHANGED <<DEFAULT_AUTH_HEADER, req, res, config, idx, fetching,
                     calls, called, pauses, probe, sleptSince, responses>>

\* lines 129-133: the outcome is recorded, postWithRetry's frame is gone and
\* the pause after the recipient starts
Record(q) ==
  LET r == RecipientAt(recipients[q], idx[q])
  IN  /\ pc[q] = "returned"
      /\ results' = [results EXCEPT ![q] =
           Append(@, ResultOf(idx[q], NameOf(r), PhoneOf(r), out[q]))]
      /\ IF out[q].ok
           THEN success' = [success EXCEPT ![q] = @ + 1] /\ UNCHANGED failed
           ELSE failed' = [failed EXCEPT ![q] = @ + 1] /\ UNCHANGED success
      /\ formObj' = [formObj EXCEPT ![q] = <<>>]
      /\ attempt' = [attempt EXCEPT ![q] = 0]
      /\ last' = [last EXCEPT ![q] = Null]
      /\ out' = [out EXCEPT ![q] = Null]
      /\ callsFor' = [callsFor EXCEPT ![q] = 0]
      /\ answered' = [answered EXCEPT ![q] = NoAnswer]
      /\ sleeping' = [sleeping EXCEPT ![q] = pauseMs[q].v]
      /\ pc' = [pc EXCEPT ![q] = "pause"]
      /\ backoffs' = [backoffs EXCEPT ![q] = 0]
      /\ UNCHANGED <<DEFAULT_AUTH_HEADER, req, res, config, idx, fetching,
                     calls, called, pauses, probe, sleptSince, responses>>

\* line 133 with a sleep whose promise is never resolved (line 15 without
\* the callback): the handler stays where it is
PauseNeverElapses(q) ==
  /\ pc[q] = "pause"
  /\ UNCHANGED vars

\* line 133 elapses, line 115: idx++
Pause(q) ==
  /\ pc[q] = "pause"
  /\ sleeping' = [sleeping EXCEPT ![q] = 0]
  /\ pauses' = [pauses EXCEPT ![q] = @ + 1]
  /\ idx' = [idx EXCEPT ![q] = @ + 1]
  /\ pc' = [pc EXCEPT ![q] = "loop"]
  /\ sleptSince' = [sleptSince EXCEPT ![q] = @ + 1]
  /\ UNCHANGED <<DEFAULT_AUTH_HEADER, req, res, config, tally, retry, fetching,
                 downstream, probe, backoffs, responses>>

(* --------------------------- specification ----------------------------- *)
\* the steps of handler invocation q
Handle(q) ==
  \/ RejectAuth(q)
  \/ RejectRecipients(q)
  \/ Accept(q)
  \/ Respond(q)
  \/ MissingPhone(q)
  \/ BeginRecipient(q)
  \/ Attempt(q)
  \/ GiveUp(q)
  \/ \E o \in FetchOutcomes : Fulfil(q, o)
  \/ \E o \in FetchOutcomes : Reject(q, o)
  \/ Backoff(q)
  \/ Record(q)
  \/ Pause(q)

\* one client, one bulk request
Next ==
  \/ SendBulk(1)
  \/ Handle(1)

Spec == Init /\ [][Next]_vars

\* the same, with every step the handler can take eventually taken: the
\* event loop runs every continuation that is ready, every fetch is settled
\* and every timer fires
FairSpec == Spec /\ WF_vars(Handle(1))

\* two clients, one bulk request each, their handlers interleaved at every
\* await; the downstream answers each request by its script
NextConc ==
  \E q \in ReqIds :
    \/ SendConcurrently(q)
    \/ Handle(q)

SpecConc == InitConc /\ [][NextConc]_vars

(* ------------------------------- claims -------------------------------- *)
\* the request of invocation q as the client sent it
SentAuthorization(q) == req[q].authorization
SentAuthHeader(q) == Field(req[q].body, "authHeader")
SentRecipients(q) == Field(req[q].body, "recipients")
SentPhone(q, k) == Field(SentRecipients(q).v[k], "phone")

\* a credential that is absent or blank after trimming
Blank(x) == x = Undef \/ Trim(x.v) = <<>>

\* none of the three auth sources yields a value
NoAuth(q) ==
  Blank(SentAuthorization(q)) /\ Blank(SentAuthHeader(q)) /\ DEFAULT_AUTH_HEADER = <<>>

\* recipients is a non-empty array
ValidList(q) == SentRecipients(q).t = "array" /\ Len(SentRecipients(q).v) > 0

\* the handler has read the request
Started(q) == pc[q] \notin {"idle", "received"}

\* the request has passed validation
PassedValidation(q) == Started(q) /\ ~NoAuth(q) /\ ValidList(q)

\* the downstream's last answer for the current recipient was a 2xx response
Answered2xx(q) ==
  /\ answered[q].kind = "response"
  /\ answered[q].status >= 200
  /\ answered[q].status < 300

\* the number of the first n recipients that have a phone
PhonesAmong(q, n) == Cardinality({k \in 1..n : Truthy(SentPhone(q, k))})

\* C1: the 200 response of a request that passed validation has one result
\* per recipient, in input order: results.length = recipients.length =
\* summary.total, and the k-th result (k from 0) has index k+1 and the phone
\* of the k-th recipient sent.
C1_OneResultPerRecipient ==
  \A q \in ReqIds :
    PassedValidation(q) /\ res[q].status = 200 =>
      LET sent == SentRecipients(q).v
          body == res[q].body
      IN  /\ Len(body.results) = Len(sent)
          /\ body.summary.total = Len(sent)
          /\ \A k \in 1..Len(sent) :
               /\ body.results[k].index = k
               /\ body.results[k].phone = SentPhone(q, k)

\* C1 witness: a 200 response reporting two recipients with different phones
C1_Witness ==
  /\ res[1].status = 200
  /\ Len(res[1].body.results) = 2
  /\ res[1].body.results[1].phone = Str(<<"C">>)
  /\ res[1].body.results[2].phone = Str(<<"A">>)

\* C2: in every 200 response success + failed = total, success is the number
\* of results with ok true and failed the number with ok false.
C2_SummaryCounts ==
  \A q \in ReqIds :
    res[q].status = 200 =>
      LET body == res[q].body
          oks == {k \in 1..Len(body.results) : body.results[k].ok}
          kos == {k \in 1..Len(body.results) : ~body.results[k].ok}
      IN  /\ body.summary.success + body.summary.failed = body.summary.total
          /\ body.summary.success = Cardinality(oks)
          /\ body.summary.failed = Cardinality(kos)

\* C2 witness: phones "A", "", "C" with a downstream that always succeeds give
\* {total: 3, success: 2, failed: 1} and status 400 for the empty phone
C2_Witness ==
  /\ res[1].status = 200
  /\ SentRecipients(1) = Arr(<<Named, EmptyPhone, Unnamed>>)
  /\ res[1].body.summary = [total |-> 3, success |-> 2, failed |-> 1]
  /\ res[1].body.results[2].status = Num(400)
  /\ calls[1] = 2

\* C3: a recipient whose phone is empty or missing gets the result ok false,
\* status 400, body {error: "Missing phone"}, and no downstream call is ever
\* issued for it, whatever maxRetries is.
C3_MissingPhoneNoCall ==
  \A q \in ReqIds :
    \A k \in 1..Len(results[q]) :
      ~Truthy(SentPhone(q, k)) =>
        /\ results[q][k].ok = FALSE
        /\ results[q][k].status = Num(400)
        /\ results[q][k].body = [error |-> "Missing phone"]
        /\ k \notin called[q]

\* C3 witness: after a recipient that was called three times, one with an
\* empty phone is reported and the call count still is three
C3_Witness ==
  /\ Len(results[1]) = 2
  /\ SentPhone(1, 2) = Str(<<>>)
  /\ results[1][2].status = Num(400)
  /\ called[1] = {1}
  /\ calls[1] = 3

\* C4: with retries a whole number R >= 0, postWithRetry never makes more than R+1 attempts
\* for a recipient, and when it returns ok false every one of exactly R+1
\* attempts has failed; the status returned is the failed attempt's.
C4_ExactlyRetriesPlusOne ==
  \A q \in ReqIds :
    Started(q) /\ Whole(maxRetries[q]) /\ maxRetries[q].v >= 0 =>
      /\ callsFor[q] <= maxRetries[q].v + 1
      /\ pc[q] = "returned" /\ ~out[q].ok =>
           /\ callsFor[q] = maxRetries[q].v + 1
           /\ ~Answered2xx(q)
           /\ answered[q].kind = "response" => out[q].status = Num(answered[q].status)

\* C4 witness: always 503 with maxRetries 2: three attempts, ok false, 503
C4_Witness ==
  /\ pc[1] = "returned"
  /\ maxRetries[1] = Num(2)
  /\ callsFor[1] = 3
  /\ out[1] = [ok |-> FALSE, status |-> Num(503), body |-> [raw |-> "Service Unavailable"]]

\* C5: once the downstream has answered an attempt with a status in
\* [200, 300), postWithRetry has returned ok true with that status and with
\* attempt = the number of failed attempts before it, which is <= retries,
\* and no further call is in flight; and it returns ok true in no other case.
C5_ReturnsOnFirstSuccess ==
  \A q \in ReqIds :
    LET answeredOk == Answered2xx(q)
    IN  /\ answeredOk =>
             /\ pc[q] = "returned"
             /\ out[q].ok
             /\ out[q].attempt = callsFor[q] - 1
             /\ 2 * out[q].attempt <= Twice(maxRetries[q])
             /\ out[q].status = Num(answered[q].status)
             /\ fetching[q] = NoCall
        /\ pc[q] = "returned" /\ out[q].ok => answeredOk

\* C5 witness: two failed attempts, then 200: {ok: true, attempt: 2, status: 200}
C5_Witness ==
  /\ pc[1] = "returned"
  /\ callsFor[1] = 3
  /\ out[1] = [ok |-> TRUE, attempt |-> 2, status |-> Num(200), body |-> [json |-> "{\"id\":1}"]]

\* the auth value the request resolves to: the trimmed header when that is
\* not blank, else the trimmed body authHeader when that is not blank, else
\* the process default
ExpectedAuth(q) ==
  IF ~Blank(SentAuthorization(q)) THEN Trim(SentAuthorization(q).v)
  ELSE IF ~Blank(SentAuthHeader(q)) THEN Trim(SentAuthHeader(q).v)
  ELSE DEFAULT_AUTH_HEADER

\* the value of pauseMs the request resolves to
ExpectedPauseMs(q) ==
  LET p == Field(req[q].body, "pauseMs")
  IN  IF p.t = "number" THEN p.v ELSE DEFAULT_PAUSE_MS

\* C6: the auth value of a request is resolved once, by the precedence
\* header > body authHeader > process default, and that one value is the
\* Authorization header of every downstream call of the request, for every
\* recipient and every attempt.
C6_AuthPrecedence ==
  \A q \in ReqIds :
    /\ Started(q) /\ ~NoAuth(q) => authHeader[q] = Str(ExpectedAuth(q))
    /\ pc[q] = "fetch" =>
         /\ "Authorization" \in DOMAIN fetching[q].headers
         /\ fetching[q].headers["Authorization"] = ExpectedAuth(q)

\* C6 witness: no header, body authHeader " b ": a retry attempt for the
\* second recipient carries Authorization "b" although a default is set
C6_Witness ==
  /\ pc[1] = "fetch"
  /\ SentAuthorization(1) = Undef
  /\ SentAuthHeader(1) = Str(<<" ", "b", " ">>)
  /\ DEFAULT_AUTH_HEADER # <<>>
  /\ idx[1] = 1
  /\ attempt[1] = 2
  /\ fetching[1].headers["Authorization"] = <<"b">>

\* C7: when none of the three auth sources yields a value, the response is
\* 400 "Missing auth..." and no downstream call is made, whether or not the
\* recipients list is valid.
C7_MissingAuthRejected ==
  \A q \in ReqIds :
    Started(q) /\ NoAuth(q) =>
      /\ pc[q] = "done"
      /\ res[q] = [status |-> 400,
                   body |-> [error |-> "Missing auth (send 'Authorization' header or 'authHeader' in body)"]]
      /\ calls[q] = 0
      /\ called[q] = {}
      /\ fetching[q] = NoCall

\* C7 witness: an empty header, a blank body authHeader, no default and a
\* valid recipients list: 400
C7_Witness ==
  /\ pc[1] = "done"
  /\ SentAuthorization(1) = Str(<<>>)
  /\ SentAuthHeader(1) = Str(<<" ">>)
  /\ DEFAULT_AUTH_HEADER = <<>>
  /\ ValidList(1)
  /\ res[1].status = 400

\* C8: when auth is resolvable and recipients is absent, not a list or an
\* empty list, the response is 400 "recipients must be a non-empty array"
\* and no downstream call is made.
C8_InvalidRecipientsRejected ==
  \A q \in ReqIds :
    Started(q) /\ ~NoAuth(q) /\ ~ValidList(q) =>
      /\ pc[q] = "done"
      /\ res[q] = [status |-> 400,
                   body |-> [error |-> "recipients must be a non-empty array"]]
      /\ calls[q] = 0
      /\ called[q] = {}
      /\ fetching[q] = NoCall

\* C8 witness: a header and an empty recipients list: 400
C8_Witness ==
  /\ pc[1] = "done"
  /\ SentAuthorization(1) = Str(<<"h">>)
  /\ SentRecipients(1) = Arr(<<>>)
  /\ res[1].status = 400

\* C9 as stated: the dispatcher sleeps after every recipient, one without a
\* phone included, so as many sleeps of line 133 have elapsed as recipients
\* have been left behind.
C9_PauseAfterEveryRecipient ==
  \A q \in ReqIds : pauses[q] = idx[q]

\* C9 amended: the dispatcher sleeps pauseMs after every recipient that has a
\* phone, whatever the outcome, and moves on from a recipient without a phone
\* with no sleep: the sleeps elapsed are as many as the recipients with a
\* phone left behind, and each lasts the pauseMs the request resolves to.
C9_PauseAfterEveryCall ==
  \A q \in ReqIds :
    /\ PassedValidation(q) => pauses[q] = PhonesAmong(q, idx[q])
    /\ pc[q] = "pause" =>
         /\ sleeping[q] = ExpectedPauseMs(q)
         /\ Truthy(SentPhone(q, idx[q] + 1))
         /\ Len(results[q]) = idx[q] + 1

\* C9 witness: three recipients are left behind, the second without a phone
\* and the third failed, and two sleeps of 100 ms have elapsed
C9_Witness ==
  /\ pc[1] = "loop"
  /\ idx[1] = 3
  /\ ~Truthy(SentPhone(1, 2))
  /\ pauses[1] = 2
  /\ pauseMs[1] = Num(100)
  /\ ~results[1][3].ok

\* C10: once validation has passed no recipient's failure ends the batch:
\* the only response is 200, it is sent when every recipient has its result,
\* and with retries >= 0 every recipient with a phone has been called by then.
C10_NoEarlyAbort ==
  \A q \in ReqIds :
    PassedValidation(q) =>
      /\ res[q].status \in {0, 200}
      /\ pc[q] = "done" <=> res[q].status = 200
      /\ pc[q] = "done" =>
           /\ idx[q] = Len(SentRecipients(q).v)
           /\ Len(res[q].body.results) = Len(SentRecipients(q).v)
           /\ Twice(maxRetries[q]) >= 0 =>
                called[q] = {k \in 1..Len(SentRecipients(q).v) : Truthy(SentPhone(q, k))}

\* C10 witness: the first recipient fails on transport, the second has no
\* phone, the third is sent: 200 with three results
C10_Witness ==
  /\ pc[1] = "done"
  /\ res[1].status = 200
  /\ Len(res[1].body.results) = 3
  /\ res[1].body.results[1].status = Num(0)
  /\ res[1].body.results[2].status = Num(400)
  /\ res[1].body.results[3].ok
  /\ called[1] = {1, 3}

\* the largest recipient index a downstream call was issued for, 0 if none
LatestCalled(q) ==
  IF called[q] = {} THEN 0 ELSE CHOOSE k \in called[q] : \A j \in called[q] : j <= k

\* C11: the recipients of a request are processed strictly one after the
\* other: at most one downstream call of the request is in flight, a call in
\* flight belongs to the recipient the loop stands at, which is the latest
\* recipient called, and every earlier recipient already has its result, so
\* all calls for recipient i are complete before a call for j > i starts.
C11_StrictlySequential ==
  \A q \in ReqIds :
    /\ Cardinality(inflight[q]) <= 1
    /\ (inflight[q] # {}) = (pc[q] = "fetch")
    /\ \A c \in inflight[q] :
         /\ c.index = idx[q] + 1
         /\ c.index = LatestCalled(q)
         /\ Len(results[q]) = c.index - 1
    /\ \A k \in called[q] : k <= idx[q] + 1

\* C11 witness: the second attempt for the second recipient is in flight
\* after the calls for the first recipient have been answered
C11_Witness ==
  /\ pc[1] = "fetch"
  /\ inflight[1] = {[index |-> 2, attempt |-> 1]}
  /\ called[1] = {1, 2}
  /\ Len(results[1]) = 1
  /\ results[1][1].status = Num(503)

\* postWithRetry run on its own from attempt a on, against a downstream that
\* plays script s from its answer k + 1 on: the outcome and the answers used
RECURSIVE TryAlone(_, _, _, _, _)
TryAlone(s, k, a, retries, l) ==
  IF ~LoopGoesOn(a, retries) THEN [out |-> Failure(l), used |-> k]
  ELSE LET o == Nth(s, k + 1)
           r == [status |-> Num(o.status), body |-> ParseBody(o.text)]
       IN  IF o.kind = "reject"
             THEN TryAlone(s, k + 1, a + 1, retries, Caught(o.error))
           ELSE IF IsSuccess(o.status)
             THEN [out |-> Success(a, r), used |-> k + 1]
           ELSE TryAlone(s, k + 1, a + 1, retries, r)

\* the results of the recipients from index i on of a request run on its own
RECURSIVE ServeAlone(_, _, _, _, _)
ServeAlone(s, rs, retries, i, k) ==
  IF ~MoreRecipients(i, rs) THEN <<>>
  ELSE LET r == RecipientAt(rs, i)
           t == TryAlone(s, k, 0, retries, Null)
       IN  IF HasPhone(r)
             THEN <<ResultOf(i, NameOf(r), PhoneOf(r), t.out)>>
                    \o ServeAlone(s, rs, retries, i + 1, t.used)
             ELSE <<MissingPhoneResult(i, NameOf(r), PhoneOf(r))>>
                    \o ServeAlone(s, rs, retries, i + 1, k)

\* the configuration request r resolves to and the results it collects when
\* it is the only request of a process started with AUTH_HEADER = dflt
AuthAlone(r, dflt) == ResolveAuth(r.authorization, r.body, dflt)
RecipientsAlone(r) == Or(Field(r.body, "recipients"), Arr(<<>>))
RetriesAlone(r) == ResolveNumber(Field(r.body, "maxRetries"), DEFAULT_MAX_RETRIES)
ResultsAlone(r, s) == ServeAlone(s, RecipientsAlone(r), RetriesAlone(r), 0, 0)

\* the response such a request gets
ResponseAlone(r, dflt, s) ==
  LET list == ResultsAlone(r, s)
      oks == {k \in 1..Len(list) : list[k].ok}
  IN  IF MissingAuth(AuthAlone(r, dflt))
        THEN [status |-> 400,
              body |-> [error |-> "Missing auth (send 'Authorization' header or 'authHeader' in body)"]]
      ELSE IF InvalidRecipients(RecipientsAlone(r))
        THEN [status |-> 400, body |-> [error |-> "recipients must be a non-empty array"]]
      ELSE [status |-> 200,
            body |-> Summary(RecipientsAlone(r), Cardinality(oks),
                             Len(list) - Cardinality(oks), list)]

\* C12: two requests handled at the same time, their steps interleaved at
\* every await, do not interact: each resolves its configuration from its own
\* request, sends its own credentials downstream, collects at every moment a
\* prefix of the results it collects when run alone against the same
\* downstream answers, and gets the response it gets when run alone.
C12_NoInteraction ==
  \A q \in ReqIds :
    /\ Started(q) =>
         /\ authHeader[q] = AuthAlone(req[q], DEFAULT_AUTH_HEADER)
         /\ apiUrl[q] = ResolveApiUrl(req[q].body)
    /\ pc[q] \notin {"idle", "received", "done"} =>
         /\ maxRetries[q] = RetriesAlone(req[q])
         /\ pauseMs[q] = Num(ExpectedPauseMs(q))
         /\ results[q] = SubSeq(ResultsAlone(req[q], script[q]), 1, Len(results[q]))
         /\ success[q] = Cardinality({k \in 1..Len(results[q]) : results[q][k].ok})
         /\ failed[q] = Len(results[q]) - success[q]
    /\ pc[q] = "fetch" =>
         /\ fetching[q].headers = Headers(AuthAlone(req[q], DEFAULT_AUTH_HEADER))
         /\ fetching[q].body["receipt_phone"] = SentPhone(q, idx[q] + 1).v
    /\ pc[q] = "done" =>
         res[q] = ResponseAlone(req[q], DEFAULT_AUTH_HEADER, script[q])

\* C12 witness: both requests are half-way, the first waiting for the answer
\* to its retry for its third recipient, the second pausing after its first,
\* each with its own credentials, pacing, retry budget and results so far
C12_Witness ==
  /\ pc[1] = "fetch" /\ pc[2] = "pause"
  /\ idx[1] = 2 /\ attempt[1] = 1 /\ Len(results[1]) = 2
  /\ idx[2] = 0 /\ Len(results[2]) = 1
  /\ authHeader[1] = Str(<<"h">>) /\ authHeader[2] = Str(<<"b">>)
  /\ maxRetries[1] = Num(1) /\ maxRetries[2] = Num(0)
  /\ sleeping[2] = 100
  /\ results[1][1].ok /\ ~results[2][1].ok

\* base.is_web as the client sent it, undefined when base or is_web is absent
SentIsWeb(q) == Field(Field(req[q].body, "base"), "is_web")

\* C13: every downstream call of a request carries is_web = "1" when the
\* base.is_web sent is one of "1", "true", "True", 1, true, is_web = "0" when
\* it is any other present value, and no is_web field when it is absent.
C13_IsWebNormalized ==
  \A q \in ReqIds :
    pc[q] = "fetch" =>
      LET raw == SentIsWeb(q)
          sent == fetching[q].body
      IN  IF raw = Undef THEN "is_web" \notin DOMAIN sent
          ELSE /\ "is_web" \in DOMAIN sent
               /\ sent["is_web"] =
                    IF \/ raw \in {Str(<<"1">>), Str(<<"t", "r", "u", "e">>)}
                       \/ raw \in {Str(<<"T", "r", "u", "e">>), Num(1), Bool(TRUE)}
                      THEN <<"1">> ELSE <<"0">>

\* C13 witness: is_web "True" goes out as "1" in the retry for the second
\* recipient
C13_Witness ==
  /\ pc[1] = "fetch"
  /\ SentIsWeb(1) = Str(<<"T", "r", "u", "e">>)
  /\ fetching[1].body["is_web"] = <<"1">>
  /\ idx[1] = 1 /\ attempt[1] = 1

\* C13 witnesses of the other cases: null goes out as "0", absent stays absent
C13_WitnessOther ==
  /\ pc[1] = "fetch"
  /\ SentIsWeb(1) = Null
  /\ fetching[1].body["is_web"] = <<"0">>

\* the downstream's last answer for the current recipient was a rejection
AnsweredReject(q) == answered[q].kind = "reject"

\* the downstream's last answer for the current recipient was a failure
AnsweredFailure(q) == answered[q].kind # "none" /\ ~Answered2xx(q)

\* C14: a rejected fetch never leaves postWithRetry as an exception: no
\* response is sent on its account, it is kept as {status: 0, body: {error}},
\* it uses up one attempt, and like any failed attempt it is followed by a
\* sleep and another attempt while attempt < retries, and by the return of
\* the failure only when no attempt is left.
C14_TransportFailureCaught ==
  \A q \in ReqIds :
    /\ AnsweredReject(q) =>
         /\ res[q] = NoResponse
         /\ pc[q] \in {"backoff", "retry", "fetch", "returned"}
         /\ pc[q] \in {"backoff", "retry", "fetch"} =>
              last[q] = [status |-> Num(0), body |-> [error |-> answered[q].error]]
         /\ pc[q] = "returned" =>
              out[q] = [ok |-> FALSE, status |-> Num(0),
                        body |-> [error |-> answered[q].error]]
    /\ AnsweredFailure(q) =>
         /\ pc[q] = "backoff" =>
              /\ attempt[q] = callsFor[q] - 1
              /\ 2 * attempt[q] < Twice(maxRetries[q])
              /\ sleeping[q] = pauseMs[q].v
         /\ pc[q] = "retry" => attempt[q] = callsFor[q]
         /\ pc[q] = "fetch" => attempt[q] = callsFor[q] - 1 /\ attempt[q] >= 1
         /\ pc[q] = "returned" =>
              /\ ~out[q].ok
              /\ 2 * callsFor[q] > Twice(maxRetries[q])

\* C14 witness: with one retry the fetch rejects twice; postWithRetry has
\* returned {ok: false, status: 0, body: {error}} after two attempts
C14_Witness ==
  /\ pc[1] = "returned"
  /\ AnsweredReject(1)
  /\ maxRetries[1] = Num(1)
  /\ callsFor[1] = 2
  /\ out[1] = [ok |-> FALSE, status |-> Num(0),
               body |-> [error |-> "TypeError: fetch failed"]]

\* the outcome a failed answer of the downstream is kept as (lines 41-45, 57)
KeptAs(o) ==
  IF o.kind = "reject" THEN [status |-> Num(0), body |-> [error |-> o.error]]
  ELSE [status |-> Num(o.status),
        body |-> IF o.text \in JsonTexts THEN [json |-> o.text] ELSE [raw |-> o.text]]

\* C15: when postWithRetry returns ok false after at least one attempt, the
\* status and body it returns are those of the last attempt, whatever the
\* earlier attempts ended in, and the outcome has no attempt field.
C15_LastAttemptSurfaces ==
  \A q \in ReqIds :
    pc[q] = "returned" /\ ~out[q].ok /\ callsFor[q] >= 1 =>
      /\ AnsweredFailure(q)
      /\ DOMAIN out[q] = {"ok", "status", "body"}
      /\ out[q].status = KeptAs(answered[q]).status
      /\ out[q].body = KeptAs(answered[q]).body

\* C15 witness: the downstream answers 503, then rejects; with one retry the
\* outcome of the first recipient is {ok: false, status: 0, body: {error}}
C15_Witness ==
  /\ script[1] = <<Answer(503), Rejection>>
  /\ pc[1] = "returned"
  /\ idx[1] = 0 /\ calls[1] = 2 /\ maxRetries[1] = Num(1)
  /\ out[1] = [ok |-> FALSE, status |-> Num(0),
               body |-> [error |-> "TypeError: fetch failed"]]

\* C15 witness of the other order: a rejection, then 503, surfaces 503
C15_WitnessOther ==
  /\ script[1] = <<Rejection, Answer(503)>>
  /\ pc[1] = "returned"
  /\ idx[1] = 0 /\ calls[1] = 2 /\ maxRetries[1] = Num(1)
  /\ out[1] = [ok |-> FALSE, status |-> Num(503),
               body |-> [raw |-> "Service Unavailable"]]

\* what C16 states of invocation q: a retry sleep is in progress only after a
\* failed attempt that another attempt follows, and a recipient whose n-th
\* call is in flight or whose outcome is returned after n calls has had n - 1
\* retry sleeps
RetryPauses(q) ==
  /\ pc[q] = "backoff" =>
       /\ AnsweredFailure(q)
       /\ sleeping[q] = pauseMs[q].v
       /\ 2 * (attempt[q] + 1) <= Twice(maxRetries[q])
  /\ pc[q] \in {"fetch", "returned"} /\ callsFor[q] >= 1 =>
       backoffs[q] = callsFor[q] - 1

\* C16: inside postWithRetry a pauseMs sleep follows a failed attempt only
\* when another attempt remains: none before the first attempt, none after a
\* success, none after the final failed attempt, so n attempts for a
\* recipient come with exactly n - 1 retry sleeps.
C16_RetryPauses == \A q \in ReqIds : RetryPauses(q)

\* C16 for the requests whose maxRetries is a whole number
C16_RetryPausesWholeRetries ==
  \A q \in ReqIds : Whole(maxRetries[q]) => RetryPauses(q)

\* C16 divergence: with maxRetries 1/2 the only attempt fails and a retry
\* sleep has elapsed all the same before the failure is returned
C16_Witness ==
  /\ pc[1] = "returned"
  /\ maxRetries[1] = Half(0)
  /\ callsFor[1] = 1
  /\ backoffs[1] = 1
  /\ ~out[1].ok

\* base as the client sent it, {} when absent
SentBase(q) == IF Field(req[q].body, "base") = Undef THEN <<>> ELSE Field(req[q].body, "base").v

\* the name of the recipient the loop stands at, as sent; its phone is
\* SentPhone(q, idx[q] + 1)
SentName(q) == Field(SentRecipients(q).v[idx[q] + 1], "name")
SentNamed(q) == SentName(q) # Undef /\ SentName(q).v # <<>>

\* C17: every downstream call for a recipient carries the fields of base as
\* sent (is_web apart, which C13 settles), receipt_phone = the recipient's
\* phone whatever base says, receipt_name = the recipient's name when it has
\* one, and otherwise no receipt_name but the one base itself may have; this
\* holds at every attempt, and base keeps the fields and values it was sent
\* with, so nothing of a recipient reaches a later recipient's payload.
C17_PayloadFrame ==
  \A q \in ReqIds :
    /\ pc[q] = "fetch" =>
         LET form == fetching[q].body
         IN  /\ DOMAIN form = DOMAIN SentBase(q) \cup {"receipt_phone"}
                                \cup (IF SentNamed(q) THEN {"receipt_name"} ELSE {})
             /\ form["receipt_phone"] = SentPhone(q, idx[q] + 1).v
             /\ SentNamed(q) => form["receipt_name"] = SentName(q).v
             /\ \A k \in DOMAIN SentBase(q) \ {"is_web", "receipt_phone"} :
                  (k = "receipt_name" /\ SentNamed(q)) \/ form[k] = SentBase(q)[k].v
    /\ pc[q] \in {"loop", "retry", "fetch", "backoff", "returned", "pause"} =>
         /\ DOMAIN base[q].v = DOMAIN SentBase(q)
         /\ \A k \in DOMAIN SentBase(q) \ {"is_web"} : base[q].v[k] = SentBase(q)[k]

\* C17 witness: base has receipt fields of its own; after the calls for a
\* named recipient the retry for the unnamed third recipient carries that
\* recipient's phone and the receipt_name of base
C17_Witness ==
  /\ pc[1] = "fetch"
  /\ idx[1] = 2 /\ attempt[1] = 1
  /\ called[1] = {1, 3}
  /\ SentBase(1) = [song_id |-> Str(<<"9">>), receipt_phone |-> Str(<<"Z">>),
                    receipt_name |-> Str(<<"z">>)]
  /\ fetching[1].body["receipt_phone"] = <<"C">>
  /\ fetching[1].body["receipt_name"] = <<"z">>
  /\ fetching[1].body["song_id"] = <<"9">>

\* the most downstream calls C18 allows invocation q: one call and
\* maxRetries retries for each recipient that has a phone (doubled, in halves)
TwiceCallBudget(q) ==
  PhonesAmong(q, Len(SentRecipients(q).v)) * (Twice(maxRetries[q]) + 2)

\* a response has been sent for request q, and only one
OneResponse(q) == responses[q] = 1 /\ pc[q] = "done" /\ res[q].status # 0

\* C18: when every downstream call is settled and every sleep elapses, a
\* request the handler has received eventually gets a response, no request
\* ever gets a second one, and with maxRetries >= 0 the downstream calls of a
\* request that passed validation never exceed (recipients with a phone) x
\* (maxRetries + 1).
C18_EventuallyOneResponse ==
  /\ (pc[1] = "received") ~> OneResponse(1)
  /\ [](responses[1] <= 1 /\ (responses[1] = 1 => OneResponse(1)))
  /\ [](PassedValidation(1) /\ Twice(maxRetries[1]) >= 0 =>
          2 * calls[1] <= TwiceCallBudget(1))

\* C18 witness: two recipients with a phone and maxRetries 2 have used the
\* six calls allowed, and the one response has been sent
C18_Witness ==
  /\ OneResponse(1)
  /\ res[1].status = 200
  /\ maxRetries[1] = Num(2)
  /\ Len(SentRecipients(1).v) = 2
  /\ calls[1] = 6

\* invocation q is about to issue a downstream call that is not its first
NextCallFollows(q) ==
  pc[q] = "retry" /\ 2 * attempt[q] <= Twice(maxRetries[q]) /\ calls[q] >= 1

\* what C19 states of invocation q: when a call follows another, one sleep
\* has elapsed since that other call, and every sleep lasts pauseMs
OneSleepBetweenCalls(q) ==
  /\ NextCallFollows(q) => sleptSince[q] = 1
  /\ pc[q] \in {"backoff", "pause"} => sleeping[q] = pauseMs[q].v

\* C19: between two consecutive downstream calls of a request exactly one
\* sleep of pauseMs elapses, be they two attempts for one recipient or the
\* last attempt for one recipient and the first for the next recipient that
\* has a phone, however many recipients without a phone lie between.
C19_OneSleepBetweenCalls == \A q \in ReqIds : OneSleepBetweenCalls(q)

\* C19 for the requests whose maxRetries is a whole number
C19_OneSleepBetweenCallsWholeRetries ==
  \A q \in ReqIds : Whole(maxRetries[q]) => OneSleepBetweenCalls(q)

\* C19 divergence: with maxRetries 1/2 the call for the first recipient
\* failed, and two sleeps have elapsed when the call for the second recipient
\* is about to be issued
C19_Witness ==
  /\ NextCallFollows(1)
  /\ maxRetries[1] = Half(0)
  /\ idx[1] = 1 /\ attempt[1] = 0 /\ calls[1] = 1
  /\ sleptSince[1] = 2

\* C19 for whole maxRetries, witnessed: the third recipient is about to be
\* called after a recipient without a phone, one sleep after the last call
C19_WitnessWholeRetries ==
  /\ NextCallFollows(1)
  /\ Whole(maxRetries[1])
  /\ idx[1] = 2 /\ called[1] = {1}
  /\ sleptSince[1] = 1

\* C20: whatever maxRetries the request resolves to, a request that passed
\* validation has, when postWithRetry returns, issued at least one call for
\* the recipient and got a status that is the last answer's HTTP status or 0
\* for a rejection; and its 200 response reports a call and a numeric status
\* for every recipient that has a phone.
C20_EveryPhoneCalled ==
  \A q \in ReqIds :
    PassedValidation(q) =>
      /\ pc[q] = "returned" =>
           /\ callsFor[q] >= 1
           /\ "status" \in DOMAIN out[q]
           /\ out[q].status =
                IF AnsweredReject(q) THEN Num(0) ELSE Num(answered[q].status)
      /\ pc[q] = "done" =>
           \A k \in 1..Len(SentRecipients(q).v) :
             Truthy(SentPhone(q, k)) =>
               /\ k \in called[q]
               /\ res[q].body.results[k].status.t = "number"

\* C20 divergence: maxRetries -1 passes line 101; the recipient has a phone,
\* no call was made and its result has neither status nor body
C20_Witness ==
  /\ pc[1] = "done"
  /\ res[1].status = 200
  /\ maxRetries[1] = Num(0 - 1)
  /\ calls[1] = 0
  /\ Len(res[1].body.results) = 1
  /\ res[1].body.results[1] =
       [index |-> 1, name |-> Str(<<>>), phone |-> Str(<<"C">>), ok |-> FALSE,
        status |-> Undef, body |-> Undef]

====
